---- MODULE Spec2Model ----
(***************************************************************************)
(* Model of bizday (src/main.go): business days elapsed / remaining in the *)
(* current month, with weekends and a fixed holiday list excluded.         *)
(*                                                                         *)
(* A time.Time is modelled as the record [year, month, day, tod]: the      *)
(* wall-clock date in the value's own location and the time of day in      *)
(* ticks (TicksPerSecond ticks per second, so sub-second instants exist).  *)
(* The location is a fixed-offset zone: two values in the same location    *)
(* compare as instants exactly as their (date, tod) pairs compare.         *)
(***************************************************************************)
EXTENDS Integers, Sequences, FiniteSets, TLC

\* ------------------------------------------------------------------ bounds
TicksPerSecond == 2
NumYears == 2
WindowLen == 8

TicksPerDay == 24 * 60 * 60 * TicksPerSecond
Noon == 12 * 60 * 60 * TicksPerSecond
\* 23:59:59.000
LastSecond == (24 * 60 * 60 - 1) * TicksPerSecond
LastTick == TicksPerDay - 1
TodSamples == {0, Noon, LastSecond, LastTick}

\* ------------------------------------------------- package time (calendar)
Sunday == 0
Saturday == 6

isLeap(year) == year % 4 = 0 /\ (year % 100 # 0 \/ year % 400 = 0)

daysBefore == <<0, 31, 59, 90, 120, 151, 181, 212, 243, 273, 304, 334, 365>>

daysIn(m, year) ==
    IF m = 2 /\ isLeap(year) THEN 29 ELSE daysBefore[m + 1] - daysBefore[m]

\* days from 0001-01-01 to January 1 of year
daysSinceEpoch(year) ==
    LET y == year - 1 IN 365 * y + (y \div 4) - (y \div 100) + (y \div 400)

\* year, month, day of the day that is abs days after 0001-01-01
\* (400/100/4/1-year cycles)
absDate(abs, tod) ==
    LET d0   == abs % 146097
        n400 == abs \div 146097
        q100 == d0 \div 36524
        n100 == IF q100 = 4 THEN 3 ELSE q100
        d1   == d0 - 36524 * n100
        n4   == d1 \div 1461
        d2   == d1 - 1461 * n4
        q1   == d2 \div 365
        n1   == IF q1 = 4 THEN 3 ELSE q1
        yday0 == d2 - 365 * n1
        year == 400 * n400 + 100 * n100 + 4 * n4 + n1 + 1
        leapDay == isLeap(year) /\ yday0 = 31 + 29 - 1
        yday == IF isLeap(year) /\ yday0 > 31 + 29 - 1 THEN yday0 - 1 ELSE yday0
        mq   == yday \div 31
        m    == IF yday >= daysBefore[mq + 2] THEN mq + 2 ELSE mq + 1
    IN IF leapDay
       THEN [year |-> year, month |-> 2, day |-> 29, tod |-> tod]
       ELSE [year |-> year, month |-> m, day |-> yday - daysBefore[m] + 1,
             tod |-> tod]

\* time.Date: month and day may be outside their ranges and are normalised
Date(year, month, day, tod) ==
    LET m0 == month - 1
        y  == year + (m0 \div 12)
        m  == (m0 % 12) + 1
        leapAdj == IF isLeap(y) /\ m >= 3 THEN 1 ELSE 0
    IN absDate(daysSinceEpoch(y) + daysBefore[m] + leapAdj + day - 1, tod)

\* days from 0001-01-01 to the date of t
absDays(t) ==
    daysSinceEpoch(t.year) + daysBefore[t.month]
        + (IF isLeap(t.year) /\ t.month >= 3 THEN 1 ELSE 0) + t.day - 1

\* Time.Weekday(): 0001-01-01 is a Monday
Weekday(t) == (absDays(t) + 1) % 7

\* Time.Before, Time.After: comparison of instants
Before(t, u) ==
    LET a == absDays(t)
        b == absDays(u)
    IN a < b \/ (a = b /\ t.tod < u.tod)

After(t, u) == Before(u, t)

AddDate(t, years, months, days) ==
    Date(t.year + years, t.month + months, t.day + days, t.tod)

\* ----------------------------------------------------------- isBusinessDay
isSameDay(day1, day2) ==
    day1.year = day2.year /\ day1.month = day2.month /\ day1.day = day2.day

\* the loop over holidays: FALSE at the first holiday on the same day
holidayLoop(day, holidays) ==
    ~\E i \in 1 .. Len(holidays) : isSameDay(day, holidays[i])

isBusinessDay_NoSundayCheck(day, holidays) ==
    IF Weekday(day) = Saturday THEN FALSE
    ELSE holidayLoop(day, holidays)

isBusinessDay(day, holidays) ==
    IF Weekday(day) = Saturday \/ Weekday(day) = Sunday THEN FALSE
    ELSE holidayLoop(day, holidays)

\* -------------------------------------------------- calcBusinessDaysInRange
\* values of time.Time and of the loop variables
Times == [year : Nat, month : 1 .. 12, day : 1 .. 31, tod : Nat]

LoopVars == [d : Times, count : Nat, evaluated : Nat]

\* the for loop of calcBusinessDaysInRange, as a function of its variables d
\* and count; evaluated counts the calls of isBusinessDay
rangeLoop(start, end, holidays) ==
    LET loop[s \in LoopVars] ==
            IF After(s.d, end)
            THEN [count |-> s.count, err |-> FALSE, evaluated |-> s.evaluated]
            ELSE loop[[d |-> AddDate(s.d, 0, 0, 1),
                       count |-> IF isBusinessDay(s.d, holidays)
                                 THEN s.count + 1 ELSE s.count,
                       evaluated |-> s.evaluated + 1]]
    IN loop[[d |-> start, count |-> 0, evaluated |-> 0]]

\* the loop with d.Before(end) as its condition
rangeLoopExclusive(start, end, holidays) ==
    LET loop[s \in LoopVars] ==
            IF ~Before(s.d, end)
            THEN [count |-> s.count, err |-> FALSE, evaluated |-> s.evaluated]
            ELSE loop[[d |-> AddDate(s.d, 0, 0, 1),
                       count |-> IF isBusinessDay(s.d, holidays)
                                 THEN s.count + 1 ELSE s.count,
                       evaluated |-> s.evaluated + 1]]
    IN loop[[d |-> start, count |-> 0, evaluated |-> 0]]

calcBusinessDaysInRange_ExclusiveEnd(start, end, holidays) ==
    IF Before(end, start)
    THEN [count |-> 0, err |-> TRUE, evaluated |-> 0]
    ELSE rangeLoopExclusive(start, end, holidays)

calcBusinessDaysInRange_NoRangeCheck(start, end, holidays) ==
    rangeLoop(start, end, holidays)

calcBusinessDaysInRange(start, end, holidays) ==
    IF Before(end, start)
    THEN [count |-> 0, err |-> TRUE, evaluated |-> 0]
    ELSE rangeLoop(start, end, holidays)

\* --------------------------------------------- beginningOfMonth, endOfMonth
beginningOfMonth(t) == Date(t.year, t.month, 1, 0)

endOfMonth_NoStepBack(t) ==
    LET firstDayOfMonth == beginningOfMonth(t)
        nextMonth == AddDate(firstDayOfMonth, 0, 1, 0)
    IN Date(nextMonth.year, nextMonth.month, nextMonth.day, LastSecond)

endOfMonth(t) ==
    LET firstDayOfMonth == beginningOfMonth(t)
        nextMonth == AddDate(firstDayOfMonth, 0, 1, 0)
        endOfThisMonth == AddDate(nextMonth, 0, 0, -1)
    IN Date(endOfThisMonth.year, endOfThisMonth.month, endOfThisMonth.day,
            LastSecond)

\* ------------------------------------------------------------ loadHolidays
\* a string is the tuple of its characters
Digits == <<"0", "1", "2", "3", "4", "5", "6", "7", "8", "9">>

isDigit(s, i) == i <= Len(s) /\ \E n \in 1 .. 10 : Digits[n] = s[i]

digitVal(c) == (CHOOSE n \in 1 .. 10 : Digits[n] = c) - 1

\* time.Parse("2006-01-02", value): four-digit year, "-", two-digit month,
\* "-", two-digit day, no extra text, month and day in range; UTC midnight
timeParse(value) ==
    LET bad == [err |-> TRUE, t |-> absDate(0, 0)]
    IN IF ~(\A i \in 1 .. 4 : isDigit(value, i)) THEN bad
       ELSE IF ~(Len(value) >= 5 /\ value[5] = "-") THEN bad
       ELSE IF ~(isDigit(value, 6) /\ isDigit(value, 7)) THEN bad
       ELSE IF ~(Len(value) >= 8 /\ value[8] = "-") THEN bad
       ELSE IF ~(isDigit(value, 9) /\ isDigit(value, 10)) THEN bad
       ELSE IF Len(value) # 10 THEN bad
       ELSE LET year  == 1000 * digitVal(value[1]) + 100 * digitVal(value[2])
                         + 10 * digitVal(value[3]) + digitVal(value[4])
                month == 10 * digitVal(value[6]) + digitVal(value[7])
                day   == 10 * digitVal(value[9]) + digitVal(value[10])
            IN IF month < 1 \/ month > 12 THEN bad
               ELSE IF day < 1 \/ day > daysIn(month, year) THEN bad
               ELSE [err |-> FALSE, t |-> Date(year, month, day, 0)]

\* yaml.Unmarshal into HolidayList: an error for a malformed document,
\* else the strings under the key "holidays"
yamlUnmarshal(yaml) ==
    IF yaml.malformed
    THEN [err |-> TRUE, Holidays |-> <<>>]
    ELSE [err |-> FALSE, Holidays |-> yaml.holidays]

ParseVars == [i : Nat, acc : Seq(Times)]

\* the loop over the strings, with skipping in place of the error return
parseLoop_SkipInvalid(strs) ==
    LET loop[s \in ParseVars] ==
            IF s.i > Len(strs) THEN [holidays |-> s.acc, err |-> FALSE]
            ELSE LET p == timeParse(strs[s.i])
                 IN loop[[i |-> s.i + 1,
                          acc |-> IF p.err THEN s.acc ELSE Append(s.acc, p.t)]]
    IN loop[[i |-> 1, acc |-> <<>>]]

\* the loop over holidayList.Holidays, as a function of the index and of the
\* holidays appended so far
parseLoop(strs) ==
    LET loop[s \in ParseVars] ==
            IF s.i > Len(strs) THEN [holidays |-> s.acc, err |-> FALSE]
            ELSE LET p == timeParse(strs[s.i])
                 IN IF p.err THEN [holidays |-> <<>>, err |-> TRUE]
                    ELSE loop[[i |-> s.i + 1, acc |-> Append(s.acc, p.t)]]
    IN loop[[i |-> 1, acc |-> <<>>]]

loadHolidays_SkipInvalid(yaml) ==
    IF yaml.len = 0 THEN [holidays |-> <<>>, err |-> TRUE]
    ELSE LET holidayList == yamlUnmarshal(yaml)
         IN IF holidayList.err THEN [holidays |-> <<>>, err |-> TRUE]
            ELSE parseLoop_SkipInvalid(holidayList.Holidays)

loadHolidays(yaml) ==
    IF yaml.len = 0 THEN [holidays |-> <<>>, err |-> TRUE]
    ELSE LET holidayList == yamlUnmarshal(yaml)
         IN IF holidayList.err THEN [holidays |-> <<>>, err |-> TRUE]
            ELSE parseLoop(holidayList.Holidays)

\* --------------------------------------------------------- report (fmt %.1f)
\* float64(index) / float64(total) * 100 to one decimal: NaN for 0/0, +Inf
\* for n/0, else tenths of a percent rounded half to even
percentElapsed(index, total) ==
    IF total = 0
    THEN [nan |-> index = 0, inf |-> index # 0, tenths |-> 0]
    ELSE LET q == (index * 1000) \div total
             r == (index * 1000) % total
             up == 2 * r > total \/ (2 * r = total /\ q % 2 = 1)
         IN [nan |-> FALSE, inf |-> FALSE, tenths |-> IF up THEN q + 1 ELSE q]


\* ------------------------------------------------------------------ inputs
digit(n) == Digits[n + 1]

\* the text YYYY-MM-DD of a calendar date
dateText(year, month, day) ==
    <<digit(year \div 1000), digit((year \div 100) % 10),
      digit((year \div 10) % 10), digit(year % 10), "-",
      digit(month \div 10), digit(month % 10), "-",
      digit(day \div 10), digit(day % 10)>>

RECURSIVE weekdayTexts(_, _, _)
weekdayTexts(year, month, day) ==
    IF day > daysIn(month, year) THEN <<>>
    ELSE LET rest == weekdayTexts(year, month, day + 1)
         IN IF Weekday(Date(year, month, day, 0)) \in {Sunday, Saturday}
            THEN rest
            ELSE <<dateText(year, month, day)>> \o rest

\* entries that are not valid YYYY-MM-DD calendar dates
BadEntries ==
    { <<"2", "0", "2", "5", "-", "1", "3", "-", "0", "1">>,
      <<"2", "0", "2", "5", "-", "0", "2", "-", "2", "9">>,
      <<"2", "0", "2", "5", "-", "0", "4", "-", "3", "1">>,
      <<"2", "0", "2", "5", "-", "0", "0", "-", "1", "0">>,
      <<"2", "0", "2", "5", "-", "0", "1", "-", "0", "0">>,
      <<"2", "0", "2", "5", "-", "1", "-", "0", "1">>,
      <<"2", "0", "2", "5", "/", "0", "1", "/", "0", "1">>,
      <<"2", "0", "2", "5", "-", "0", "1", "-", "0", "1", "x">>,
      <<"2", "5", "-", "0", "1", "-", "0", "1">>,
      <<>> }

NewYear == dateText(2025, 1, 1)

\* valid holiday lists: none, New Year's Day, a mixed list with a leap day, a
\* weekend holiday and a duplicate, and every weekday of February 2025
GoodLists ==
    { <<>>,
      <<NewYear>>,
      <<dateText(2024, 2, 29), dateText(2024, 12, 25), NewYear,
        dateText(2025, 1, 4), NewYear, dateText(2025, 12, 31)>>,
      weekdayTexts(2025, 2, 1) }

BadLists ==
    {<<b>> : b \in BadEntries}
        \cup {<<NewYear, b, dateText(2025, 5, 5)>> : b \in BadEntries}

\* the embedded file: its size, whether it is a YAML document that
\* unmarshals, and the strings under "holidays"
EmbeddedFiles ==
    {[len |-> 0, malformed |-> FALSE, holidays |-> <<>>],
     [len |-> 1, malformed |-> TRUE, holidays |-> <<>>]}
        \cup {[len |-> 1, malformed |-> FALSE, holidays |-> l] :
                l \in GoodLists \cup BadLists}

\* time.Now(): any day of the modelled years at a sampled time of day
ClockDays == daysSinceEpoch(2024) .. (daysSinceEpoch(2024 + NumYears) - 1)

ClockTimes == {absDate(a, t) : a \in ClockDays, t \in TodSamples}

\* arguments of direct calls: days around the 2024/2025 year boundary
WindowDays ==
    LET first == absDays(Date(2024, 12, 27, 0))
    IN first .. (first + WindowLen - 1)

WindowTimes == {absDate(a, t) : a \in WindowDays, t \in TodSamples}

HolidayArgs ==
    { <<>>,
      <<Date(2025, 1, 1, 0)>>,
      <<Date(2024, 12, 28, 0), Date(2024, 12, 31, Noon),
        Date(2024, 12, 31, 0)>> }

\* ------------------------------------------------------------------- state
VARIABLES
    pc,                 \* position of main
    holidaysYAML,       \* the embedded file
    holidays,           \* main's holidays
    today, start, end,  \* main's dates
    businessDaysPassed, businessDaysTotal,
    calcErr,            \* a calcBusinessDaysInRange call of main failed
    stdout, stderr,     \* lines printed so far
    exitStatus,         \* -1 while running
    fn, argStart, argEnd, argHolidays, ret   \* a direct call and its result

mainVars == <<pc, holidaysYAML, holidays, today, start, end,
              businessDaysPassed, businessDaysTotal, calcErr,
              stdout, stderr, exitStatus>>

fnVars == <<fn, argStart, argEnd, argHolidays, ret>>

vars == <<mainVars, fnVars>>

NoTime == absDate(0, 0)

NoCall ==
    /\ fn = "none"
    /\ argStart = NoTime
    /\ argEnd = NoTime
    /\ argHolidays = <<>>
    /\ ret = FALSE

Init ==
    /\ pc = "load"
    /\ holidaysYAML \in EmbeddedFiles
    /\ holidays = <<>>
    /\ today = NoTime
    /\ start = NoTime
    /\ end = NoTime
    /\ businessDaysPassed = 0
    /\ businessDaysTotal = 0
    /\ calcErr = FALSE
    /\ stdout = <<>>
    /\ stderr = <<>>
    /\ exitStatus = -1
    /\ NoCall

\* log.Fatalf: print the cause and exit with status 1
Fatal(cause) ==
    /\ stderr' = Append(stderr, cause)
    /\ exitStatus' = 1
    /\ pc' = "exited"

\* main, lines 23-26
LoadStep_IgnoreError ==
    /\ pc = "load"
    /\ holidays' = loadHolidays(holidaysYAML).holidays
    /\ pc' = "now"
    /\ UNCHANGED <<holidaysYAML, today, start, end, businessDaysPassed,
                   businessDaysTotal, calcErr, stdout, stderr, exitStatus>>
    /\ UNCHANGED fnVars

LoadStep ==
    /\ pc = "load"
    /\ LET r == loadHolidays(holidaysYAML)
       IN IF r.err
          THEN /\ Fatal("load")
               /\ UNCHANGED holidays
          ELSE /\ holidays' = r.holidays
               /\ pc' = "now"
               /\ UNCHANGED <<stderr, exitStatus>>
    /\ UNCHANGED <<holidaysYAML, today, start, end, businessDaysPassed,
                   businessDaysTotal, calcErr, stdout>>
    /\ UNCHANGED fnVars

\* main, lines 29-35: time.Now(), then the bounds of its month
MonthBounds ==
    /\ pc = "now"
    /\ \E now \in ClockTimes :
          /\ today' = now
          /\ start' = beginningOfMonth(now)
          /\ end' = endOfMonth(now)
    /\ pc' = "passed"
    /\ UNCHANGED <<holidaysYAML, holidays, businessDaysPassed,
                   businessDaysTotal, calcErr, stdout, stderr, exitStatus>>
    /\ UNCHANGED fnVars

\* main, lines 38-41
CalcPassed ==
    /\ pc = "passed"
    /\ LET r == calcBusinessDaysInRange(start, today, holidays)
       IN IF r.err
          THEN /\ Fatal("calc")
               /\ calcErr' = TRUE
               /\ UNCHANGED businessDaysPassed
          ELSE /\ businessDaysPassed' = r.count
               /\ pc' = "total"
               /\ UNCHANGED <<calcErr, stderr, exitStatus>>
    /\ UNCHANGED <<holidaysYAML, holidays, today, start, end,
                   businessDaysTotal, stdout>>
    /\ UNCHANGED fnVars

\* main, lines 44-47
CalcTotal ==
    /\ pc = "total"
    /\ LET r == calcBusinessDaysInRange(start, end, holidays)
       IN IF r.err
          THEN /\ Fatal("calc")
               /\ calcErr' = TRUE
               /\ UNCHANGED businessDaysTotal
          ELSE /\ businessDaysTotal' = r.count
               /\ pc' = "report"
               /\ UNCHANGED <<calcErr, stderr, exitStatus>>
    /\ UNCHANGED <<holidaysYAML, holidays, today, start, end,
                   businessDaysPassed, stdout>>
    /\ UNCHANGED fnVars

businessDayIndex == businessDaysPassed

businessDaysLeft == businessDaysTotal - businessDaysPassed

Number(n) == [nan |-> FALSE, inf |-> FALSE, n |-> n]

Line(line, value) == [line |-> line, value |-> value]

\* main, lines 62-66: the four Printf calls, then main returns
Report ==
    /\ pc = "report"
    /\ LET p == percentElapsed(businessDayIndex, businessDaysTotal)
       IN stdout' = stdout \o
            <<Line("index", Number(businessDayIndex)),
              Line("left", Number(businessDaysLeft)),
              Line("hours", Number(businessDaysLeft * 8)),
              Line("percent", [nan |-> p.nan, inf |-> p.inf, n |-> p.tenths])>>
    /\ exitStatus' = 0
    /\ pc' = "exited"
    /\ UNCHANGED <<holidaysYAML, holidays, today, start, end,
                   businessDaysPassed, businessDaysTotal, calcErr, stderr>>
    /\ UNCHANGED fnVars

Next ==
    \/ LoadStep
    \/ MonthBounds
    \/ CalcPassed
    \/ CalcTotal
    \/ Report

Spec == Init /\ [][Next]_vars

\* --------------------------------------- direct calls with arbitrary inputs
NoMain ==
    /\ pc = "idle"
    /\ holidaysYAML = [len |-> 0, malformed |-> FALSE, holidays |-> <<>>]
    /\ holidays = <<>>
    /\ today = NoTime
    /\ start = NoTime
    /\ end = NoTime
    /\ businessDaysPassed = 0
    /\ businessDaysTotal = 0
    /\ calcErr = FALSE
    /\ stdout = <<>>
    /\ stderr = <<>>
    /\ exitStatus = -1

InitFn ==
    /\ NoMain
    /\ fn = "none"
    /\ argStart \in WindowTimes
    /\ argEnd \in WindowTimes
    /\ argHolidays \in HolidayArgs
    /\ ret = FALSE

\* calcBusinessDaysInRange(argStart, argEnd, argHolidays)
CallCalc ==
    /\ fn = "none"
    /\ fn' = "calcBusinessDaysInRange"
    /\ ret' = calcBusinessDaysInRange(argStart, argEnd, argHolidays)
    /\ UNCHANGED <<argStart, argEnd, argHolidays>>
    /\ UNCHANGED mainVars

\* isBusinessDay(argStart, argHolidays)
CallIsBusinessDay ==
    /\ fn = "none"
    /\ fn' = "isBusinessDay"
    /\ ret' = isBusinessDay(argStart, argHolidays)
    /\ UNCHANGED <<argStart, argEnd, argHolidays>>
    /\ UNCHANGED mainVars

NextFn ==
    \/ CallCalc
    \/ CallIsBusinessDay

SpecFn == InitFn /\ [][NextFn]_vars


\* ------------------------------------------------------------------ claims
\* day number a (0001-01-01, a Monday, is day 0) is Monday to Friday and no
\* holiday of hols falls on it
IsWorkingDayNumber(a, hols) ==
    /\ a % 7 \in 0 .. 4
    /\ \A i \in 1 .. Len(hols) : absDays(hols[i]) # a

WorkingDaysBetween(first, last, hols) ==
    Cardinality({a \in first .. last : IsWorkingDayNumber(a, hols)})

CalcCalled == fn = "calcBusinessDaysInRange"

WithTod(t, tod) == [t EXCEPT !.tod = tod]

\* C1: for every start and end where end does not precede start,
\* calcBusinessDaysInRange returns without error the number of calendar days
\* from start's date to end's date, both counted, that are Monday to Friday
\* and not holidays.
C1_CountsEveryDayOfRange ==
    (CalcCalled /\ ~Before(argEnd, argStart)) =>
        /\ ~ret.err
        /\ ret.count =
             WorkingDaysBetween(absDays(argStart), absDays(argEnd), argHolidays)

\* C2: the outcome of calcBusinessDaysInRange (count, or error) depends only
\* on the calendar dates of start and end, not on their times of day.
C2_TimeOfDayIgnored ==
    CalcCalled =>
        \A ts \in TodSamples, te \in TodSamples :
            LET r == calcBusinessDaysInRange(WithTod(argStart, ts),
                                             WithTod(argEnd, te), argHolidays)
            IN r.err = ret.err /\ r.count = ret.count

\* C3: additivity: for start <= end and every calendar day mid with
\* start <= mid < end, count(start, end) = count(start, mid)
\* + count(mid + 1 day, end), none of the three calls failing.
C3_Additive ==
    (CalcCalled /\ ~Before(argEnd, argStart)) =>
        \A m \in WindowDays :
            LET mid == absDate(m, 0)
            IN (~Before(mid, argStart) /\ m < absDays(argEnd)) =>
                 LET a == calcBusinessDaysInRange(argStart, mid, argHolidays)
                     b == calcBusinessDaysInRange(AddDate(mid, 0, 0, 1),
                                                  argEnd, argHolidays)
                 IN /\ ~ret.err /\ ~a.err /\ ~b.err
                    /\ ret.count = a.count + b.count

\* C5: isBusinessDay is true exactly when the date is not a Saturday, not a
\* Sunday, and no holiday falls on the same calendar date, times of day
\* ignored; so it is false on every Saturday and Sunday, listed or not.
C5_BusinessDayPredicate ==
    fn = "isBusinessDay" =>
        (ret <=> IsWorkingDayNumber(absDays(argStart), argHolidays))

\* a weekday that is a holiday listed with another time of day
C5_Witness ==
    /\ fn = "isBusinessDay"
    /\ absDays(argStart) % 7 \in 0 .. 4
    /\ \E i \in 1 .. Len(argHolidays) :
          /\ absDays(argHolidays[i]) = absDays(argStart)
          /\ argHolidays[i].tod # argStart.tod
    /\ ret = FALSE

\* C9: whenever end precedes start, calcBusinessDaysInRange returns an error
\* with count 0 and has evaluated no day.
C9_InvalidRange ==
    (CalcCalled
     /\ (\/ absDays(argEnd) < absDays(argStart)
         \/ (absDays(argEnd) = absDays(argStart) /\ argEnd.tod < argStart.tod)))
        => (ret.err /\ ret.count = 0 /\ ret.evaluated = 0)

\* end on an earlier calendar day than start: an error, nothing evaluated
C9_Witness ==
    /\ CalcCalled
    /\ absDays(argEnd) < absDays(argStart)
    /\ ret.err
    /\ ret.evaluated = 0

\* -- claims about a run of main
BoundsDone == pc \in {"passed", "total", "report"} \/ exitStatus = 0

TotalsDone == pc = "report" \/ exitStatus = 0

FirstOfNextMonth(t) ==
    [year |-> IF t.month = 12 THEN t.year + 1 ELSE t.year,
     month |-> IF t.month = 12 THEN 1 ELSE t.month + 1,
     day |-> 1, tod |-> 0]

\* C4: beginningOfMonth(today) is day 1 of today's year and month;
\* endOfMonth(today) is a day of today's year and month, at 23:59:59, whose
\* next day is day 1 of the following month (2025-02-28 and 2024-02-29 in
\* the two Februaries).
C4_MonthBounds ==
    BoundsDone =>
        /\ start = [year |-> today.year, month |-> today.month, day |-> 1,
                    tod |-> 0]
        /\ end.year = today.year /\ end.month = today.month
        /\ end.tod = LastSecond
        /\ absDays(end) + 1 = absDays(FirstOfNextMonth(today))
        /\ (today.year = 2025 /\ today.month = 2) => end.day = 28
        /\ (today.year = 2024 /\ today.month = 2) => end.day = 29

\* the leap day: the month ends on 2024-02-29
C4_Witness ==
    /\ BoundsDone
    /\ today.year = 2024 /\ today.month = 2 /\ today.day = 29
    /\ end.month = 2 /\ end.day = 29

\* C6: when businessDaysTotal is 0 the percentage is reported as 0 % (or the
\* run fails with an error), never as the result of the unguarded division.
C6_DivisionGuarded ==
    (businessDaysTotal = 0 /\ Len(stdout) = 4) =>
        LET v == stdout[4].value IN ~v.nan /\ ~v.inf /\ v.n = 0

LoadFails ==
    \/ holidaysYAML.len = 0
    \/ holidaysYAML.malformed
    \/ \E i \in 1 .. Len(holidaysYAML.holidays) :
          holidaysYAML.holidays[i] \in BadEntries

ReportLines == <<"index", "left", "hours", "percent">>

\* C7: a failed load or a failed count ends the run at once with status 1,
\* the cause reported and no report line printed; the four report lines are
\* printed in order only after the load and both counts succeeded, and the
\* run then ends with status 0.
C7_FailFast ==
    /\ (LoadFails /\ pc # "load") =>
          (pc = "exited" /\ exitStatus = 1 /\ stderr = <<"load">>)
    /\ calcErr => (pc = "exited" /\ exitStatus = 1 /\ stderr = <<"calc">>)
    /\ exitStatus = 1 => (stdout = <<>> /\ (LoadFails \/ calcErr))
    /\ stdout # <<>> =>
          /\ ~LoadFails /\ ~calcErr /\ stderr = <<>>
          /\ Len(stdout) <= 4
          /\ \A i \in 1 .. Len(stdout) : stdout[i].line = ReportLines[i]
    /\ exitStatus = 0 <=> (pc = "exited" /\ Len(stdout) = 4)
    /\ pc = "exited" => (exitStatus \in {0, 1} /\ ~ENABLED Next)
    /\ pc # "exited" => exitStatus = -1

\* the load failed on the second entry: nothing was printed
C7_Witness ==
    /\ pc = "exited"
    /\ exitStatus = 1
    /\ stderr = <<"load">>
    /\ stdout = <<>>
    /\ Len(holidaysYAML.holidays) = 3

Text(t) == dateText(t.year, t.month, t.day)

\* C8: loadHolidays fails and returns no holidays when the file is empty or
\* malformed or any entry is not a valid YYYY-MM-DD date; an entry is never
\* skipped or read as another date, and no partial list is returned.
C8_LoadRejectsInvalid ==
    LET entries == holidaysYAML.holidays
    IN /\ pc = "load" =>
             LET r == loadHolidays(holidaysYAML)
             IN IF LoadFails THEN r.err /\ r.holidays = <<>> ELSE ~r.err
       /\ (LoadFails /\ pc # "load") => (holidays = <<>> /\ exitStatus = 1)
       /\ (~LoadFails /\ pc # "load") =>
             /\ Len(holidays) = Len(entries)
             /\ \A i \in 1 .. Len(entries) :
                   Text(holidays[i]) = entries[i] /\ holidays[i].tod = 0

C8_Witness ==
    /\ pc = "exited"
    /\ holidaysYAML.holidays
         = <<NewYear, <<"2", "0", "2", "5", "-", "1", "3", "-", "0", "1">>,
             dateText(2025, 5, 5)>>
    /\ holidays = <<>>
    /\ exitStatus = 1

RemainingIsRight ==
    /\ ~calcErr
    /\ BoundsDone => ~Before(today, start)
    /\ TotalsDone =>
          /\ 0 <= businessDaysPassed
          /\ businessDaysPassed <= businessDaysTotal
          /\ businessDaysLeft >= 0
          /\ businessDaysLeft * 8 >= 0
          /\ businessDaysLeft
               = WorkingDaysBetween(absDays(today) + 1, absDays(end), holidays)
    /\ Len(stdout) >= 3 =>
          /\ stdout[2].value.n = businessDaysLeft
          /\ stdout[3].value.n = businessDaysLeft * 8

\* C10 as stated: beginningOfMonth(today) <= today <= endOfMonth(today) as
\* instants, no invalid-range error, 0 <= passed <= total, and the remaining
\* days are the business days after today up to the end of the month.
C10_TodayWithinBounds ==
    /\ RemainingIsRight
    /\ BoundsDone => ~After(today, end)

\* C10 amended: beginningOfMonth(today) <= today, and today's calendar date
\* is not after endOfMonth(today)'s (today is less than a second after it);
\* no invalid-range error, 0 <= passed <= total, remaining days and hours
\* are not negative and the remaining days are the business days after today
\* up to the last day of the month.
C10_TodayWithinMonth ==
    /\ RemainingIsRight
    /\ BoundsDone =>
          /\ absDays(today) <= absDays(end)
          /\ (today.tod <= LastSecond => ~After(today, end))

\* the last fraction of a second of a month: today is after endOfMonth(today)
C10_Witness ==
    /\ exitStatus = 0
    /\ After(today, end)
    /\ businessDaysPassed = businessDaysTotal
    /\ businessDaysTotal > 0

====
